---- MODULE Spec2Model ----
(***************************************************************************)
(* State-machine model of the rustcore feature engine of sol-seeker:       *)
(* FeatureVec (features.rs), the EWMA updater (welford.rs), the engine     *)
(* (lib.rs: FeatureEngine new, push_event, on_slot_end, get_stats), the    *)
(* functor set and its registry (functors.rs), the event channel in front  *)
(* of the functors, and the catalog check of the build script (build.rs).  *)
(*                                                                         *)
(* Numbers.  Event payloads (delta, prev, amount) are whole numbers and    *)
(* timestamps are integers.  Every floating-point quantity of the code     *)
(* (accumulators, means, variances, the values fed to the updater) is held *)
(* in fixed point, as an integer count of 1/Scale units; a division of the *)
(* code becomes an integer division that rounds toward minus infinity.     *)
(* The cast `as f32` is AsF32, which keeps 24 significant bits.            *)
(***************************************************************************)
EXTENDS Integers, Sequences, FiniteSets, TLC

\* ------------------------------------------------------------------ bounds
\* Fixed-point resolution: units per 1.0.
Scale == 1000
\* Calls (push_event / on_slot_end) made on the engine in one behaviour.
MaxCalls == 4

\* Functor applications made in one behaviour.
MaxApplies == 3
\* Events sent on the event channel in one behaviour.
MaxEnq == 3
\* Edits made to the feature catalog before the build script reads it.
MaxEdits == 2
\* Where the catalog is edited and the indices written there.
EditPositions == {1, 2, 256}
CatalogValues == {-1, 0, 1, 255, 256}

\* The feature states the functors are applied to.
FvIds == {1, 2}

\* Payload values the events are drawn from.
Deltas == {-3}
Prevs == {0, 2}
Amounts == {-3, 10}
Timestamps == {0, 1, 3}

\* --------------------------------------------------------- program constants
NumFeatures == 256
IDX_LIQ_DELTA_ABS == 0
IDX_LIQ_DELTA_RATIO == 1
IDX_OF_SIGNED_VOL == 64
IDX_OF_TRADE_COUNT == 65
IDX_OF_IA_TIME_MS == 66
\* LAMBDA = 0.995 = LambdaNum / LambdaDen
LambdaNum == 995
LambdaDen == 1000
\* f64::EPSILON (2.2e-16) in fixed-point units: below one unit.
F64_EPSILON == 0
\* An f32 keeps 24 significant bits.
F32_MANTISSA == 16777216

Idx == 0 .. (NumFeatures - 1)
Zeros == [i \in Idx |-> 0]

\* ------------------------------------------------------------------ helpers
Abs(x) == IF x < 0 THEN -x ELSE x

None == [some |-> FALSE, val |-> 0]
Some(x) == [some |-> TRUE, val |-> x]

\* Spacing of the f32 values around magnitude m (1 while m fits the mantissa).
RECURSIVE Ulp(_)
Ulp(m) == IF m < F32_MANTISSA THEN 1 ELSE 2 * Ulp(m \div 2)

\* `x as f32`: round to the nearest representable value, ties to even.
AsF32(x) ==
    LET u == Ulp(Abs(x))
        q == x \div u
        r == x - q * u
    IN  IF 2 * r < u THEN q * u
        ELSE IF 2 * r > u THEN (q + 1) * u
        ELSE IF q % 2 = 0 THEN q * u ELSE (q + 1) * u

\* A whole number as a fixed-point f64.
Fx(n) == n * Scale

\* welford::update: the new (mean, var) after observing `value`.
WelfordUpdate(mean, var, value) ==
    LET delta == value - mean
        mean2 == mean + ((LambdaDen - LambdaNum) * delta) \div LambdaDen
        var2  == (LambdaNum * (var + (((LambdaDen - LambdaNum) * delta * delta)
                                        \div LambdaDen) \div Scale)) \div LambdaDen
    IN  [mean |-> mean2, var |-> var2]

\* FeatureVec::new
FeatureVecNew == [data |-> Zeros, means |-> Zeros, vars |-> Zeros]

\* Mutant of ResetData: the slot boundary also clears the running statistics.
ResetData_ClearsStats(f) == [data |-> Zeros, means |-> Zeros, vars |-> Zeros]

\* FeatureVec::reset_data
ResetData(f) == [f EXCEPT !.data = Zeros]

\* FeatureVec::update
FvUpdate(f, idx, value) ==
    LET w == WelfordUpdate(f.means[idx], f.vars[idx], value)
    IN  [f EXCEPT !.means[idx] = w.mean, !.vars[idx] = w.var]

\* fv.data[idx] += v as f32   (f32 addition)
DataAdd(f, idx, v) == [f EXCEPT !.data[idx] = AsF32(@ + AsF32(v))]

\* fv.data[idx] = v as f32
DataSet(f, idx, v) == [f EXCEPT !.data[idx] = AsF32(v)]

\* ------------------------------------------------------------------- state
VARIABLES
    fv,            \* FeatureEngine.fv : FeatureVec
    lag1,          \* FeatureEngine.lag1
    lag2,          \* FeatureEngine.lag2
    out,           \* FeatureEngine.out, the 768-value array handed to the caller
    last_swap_ts,  \* FeatureEngine.last_swap_ts : Option<i64>
    ret,           \* what the last call on the engine returned
    log,           \* history: the events push_event accepted, oldest first
    slotStart,     \* history: Len(log) at the last on_slot_end
    hist,          \* history: the snapshots on_slot_end returned, oldest first
    sincePush,     \* history: push_event calls since the last on_slot_end
    idleEnd,       \* history: the last on_slot_end found sincePush = 0
    nCalls,        \* number of calls made on the engine
    faults,        \* history: get_stats calls that faulted
    fvs,           \* the feature states the registry's functors are applied to
    ia_last,       \* REGISTRY["of_ia_time_ms"].last : AtomicI64
    flushed,       \* history: functor applications to a Flush event
    iaLog,         \* history: the Swaps of_ia_time_ms was applied to: [id, ts], oldest first
    nApplied,      \* number of functor applications made
    queue,         \* the event channel: [seq, evt] in flight, oldest first
    nEnq,          \* number of events enqueued so far
    applied,       \* history: sequence numbers of the events applied to the feature state
    acked,         \* history: acknowledgments signalled: [seq, applied at that moment]
    catalog,       \* the feature catalog: the index of each FEATURES entry
    nEdits,        \* number of edits made to the catalog
    build          \* outcome of the build script: "none" until it has run

engine == <<fv, lag1, lag2, out, last_swap_ts>>
engineVars == <<fv, lag1, lag2, out, last_swap_ts, ret, log, slotStart, hist,
                sincePush, idleEnd, nCalls, faults>>
functorVars == <<fvs, ia_last, flushed, iaLog, nApplied>>
queueVars == <<queue, nEnq, applied, acked>>
catalogVars == <<catalog, nEdits, build>>
vars == <<fv, lag1, lag2, out, last_swap_ts, ret, log, slotStart, hist,
          sincePush, idleEnd, nCalls, faults, fvs, ia_last, flushed, iaLog, nApplied,
          queue, nEnq, applied, acked, catalog, nEdits, build>>

OutIdx == 0 .. (3 * NumFeatures - 1)

\* PyEvent values handed to push_event.
OptOf(S) == {None} \cup {Some(x) : x \in S}
PyEvents ==
    [tag : {"Liquidity"}, delta : OptOf(Deltas), prev : OptOf(Prevs),
     amount : {None}, timestamp_ms : {None}]
    \cup
    [tag : {"Swap"}, delta : {None}, prev : {None},
     amount : OptOf(Amounts), timestamp_ms : OptOf(Timestamps)]
    \cup
    [tag : {"Flush", "Other"}, delta : {None}, prev : {None},
     amount : {None}, timestamp_ms : {None}]

\* FeatureEngine::new
EngineNew ==
    /\ fv = FeatureVecNew
    /\ lag1 = Zeros
    /\ lag2 = Zeros
    /\ out = [i \in OutIdx |-> 0]   \* PyArray1::zeros(256 * 3)
    /\ last_swap_ts = None

Init ==
    /\ EngineNew
    /\ ret = [op |-> "new", ok |-> TRUE]
    /\ log = <<>>
    /\ slotStart = 0
    /\ hist = <<>>
    /\ sincePush = 0
    /\ idleEnd = FALSE
    /\ nCalls = 0
    /\ faults = 0
    /\ fvs = [id \in FvIds |-> FeatureVecNew]
    /\ ia_last = 0
    /\ flushed = 0
    /\ iaLog = <<>>
    /\ nApplied = 0
    /\ queue = <<>>
    /\ nEnq = 0
    /\ applied = {}
    /\ acked = {}
    /\ catalog = [i \in 1 .. NumFeatures |-> i - 1]
    /\ nEdits = 0
    /\ build = "none"

\* Mutant of ApplyLiquidity: the signed delta is accumulated, not its absolute value.
ApplyLiquidity_SignedDelta(f, delta, prev) ==
    LET d     == Fx(delta)
        f1    == FvUpdate(DataAdd(f, IDX_LIQ_DELTA_ABS, d), IDX_LIQ_DELTA_ABS, d)
        ratio == IF Abs(Fx(prev)) > F64_EPSILON
                 THEN (Fx(delta) * Scale) \div Fx(prev) ELSE 0
    IN  FvUpdate(DataAdd(f1, IDX_LIQ_DELTA_RATIO, ratio), IDX_LIQ_DELTA_RATIO, ratio)

\* Mutant of ApplyLiquidity: the ratio lands in slot `idx`, not in slot 1.
LiquidityRatioAt(f, delta, prev, idx) ==
    LET abs   == Abs(Fx(delta))
        f1    == FvUpdate(DataAdd(f, IDX_LIQ_DELTA_ABS, abs), IDX_LIQ_DELTA_ABS, abs)
        ratio == IF Abs(Fx(prev)) > F64_EPSILON
                 THEN (Fx(delta) * Scale) \div Fx(prev) ELSE 0
    IN  FvUpdate(DataAdd(f1, idx, ratio), idx, ratio)
ApplyLiquidity_RatioInSwapSlot(f, delta, prev) ==
    LiquidityRatioAt(f, delta, prev, IDX_OF_TRADE_COUNT)
ApplyLiquidity_RatioInSlot2(f, delta, prev) ==
    LiquidityRatioAt(f, delta, prev, IDX_LIQ_DELTA_RATIO + 1)

\* Mutant of ApplyLiquidity: the guard is prev > epsilon, without the absolute value.
ApplyLiquidity_PositivePrevOnly(f, delta, prev) ==
    LET abs   == Abs(Fx(delta))
        f1    == FvUpdate(DataAdd(f, IDX_LIQ_DELTA_ABS, abs), IDX_LIQ_DELTA_ABS, abs)
        ratio == IF Fx(prev) > F64_EPSILON
                 THEN (Fx(delta) * Scale) \div Fx(prev) ELSE 0
    IN  FvUpdate(DataAdd(f1, IDX_LIQ_DELTA_RATIO, ratio), IDX_LIQ_DELTA_RATIO, ratio)

\* FeatureEngine::apply_liquidity: the feature vector after the event.
ApplyLiquidity(f, delta, prev) ==
    LET abs   == Abs(Fx(delta))
        f1    == FvUpdate(DataAdd(f, IDX_LIQ_DELTA_ABS, abs), IDX_LIQ_DELTA_ABS, abs)
        ratio == IF Abs(Fx(prev)) > F64_EPSILON
                 THEN (Fx(delta) * Scale) \div Fx(prev) ELSE 0
    IN  FvUpdate(DataAdd(f1, IDX_LIQ_DELTA_RATIO, ratio), IDX_LIQ_DELTA_RATIO, ratio)

\* Mutant of ApplySwap: the inter-arrival time is added to slot 66 (+=), not stored.
ApplySwap_Accumulates(f, last, amount, ts) ==
    LET f1 == FvUpdate(DataAdd(f, IDX_OF_SIGNED_VOL, Fx(amount)),
                       IDX_OF_SIGNED_VOL, Fx(amount))
        f2 == FvUpdate(DataAdd(f1, IDX_OF_TRADE_COUNT, Fx(1)), IDX_OF_TRADE_COUNT, Fx(1))
        dt == IF last.some THEN Fx(ts - last.val) ELSE 0
        f3 == IF last.some THEN DataAdd(f2, IDX_OF_IA_TIME_MS, dt) ELSE f2
    IN  [fv |-> FvUpdate(f3, IDX_OF_IA_TIME_MS, dt), last |-> Some(ts)]

\* Mutant of ApplySwap: with no previous swap the last timestamp counts as 0.
ApplySwap_FirstFromZero(f, last, amount, ts) ==
    LET f1 == FvUpdate(DataAdd(f, IDX_OF_SIGNED_VOL, Fx(amount)),
                       IDX_OF_SIGNED_VOL, Fx(amount))
        f2 == FvUpdate(DataAdd(f1, IDX_OF_TRADE_COUNT, Fx(1)), IDX_OF_TRADE_COUNT, Fx(1))
        dt == Fx(ts - last.val)
        f3 == DataSet(f2, IDX_OF_IA_TIME_MS, dt)
    IN  [fv |-> FvUpdate(f3, IDX_OF_IA_TIME_MS, dt), last |-> Some(ts)]

\* FeatureEngine::apply_swap: the feature vector and last_swap_ts after the event.
ApplySwap(f, last, amount, ts) ==
    LET f1 == FvUpdate(DataAdd(f, IDX_OF_SIGNED_VOL, Fx(amount)),
                       IDX_OF_SIGNED_VOL, Fx(amount))
        f2 == FvUpdate(DataAdd(f1, IDX_OF_TRADE_COUNT, Fx(1)), IDX_OF_TRADE_COUNT, Fx(1))
        dt == IF last.some THEN Fx(ts - last.val) ELSE 0
        f3 == IF last.some THEN DataSet(f2, IDX_OF_IA_TIME_MS, dt) ELSE f2
    IN  [fv |-> FvUpdate(f3, IDX_OF_IA_TIME_MS, dt), last |-> Some(ts)]

\* Mutant of PushError: a Swap without timestamp is accepted (as with unwrap_or(0)).
PushError_MissingTimestampOk(evt) ==
    IF evt.tag = "Liquidity" THEN
        IF ~evt.delta.some THEN "missing delta"
        ELSE IF ~evt.prev.some THEN "missing prev"
        ELSE ""
    ELSE IF evt.tag = "Swap" THEN
        IF ~evt.amount.some THEN "missing amount" ELSE ""
    ELSE "unknown event tag"

\* The error push_event returns for evt, "" when it accepts it.
PushError(evt) ==
    IF evt.tag = "Liquidity" THEN
        IF ~evt.delta.some THEN "missing delta"
        ELSE IF ~evt.prev.some THEN "missing prev"
        ELSE ""
    ELSE IF evt.tag = "Swap" THEN
        IF ~evt.amount.some THEN "missing amount"
        ELSE IF ~evt.timestamp_ms.some THEN "missing timestamp"
        ELSE ""
    ELSE "unknown event tag"

\* Mutant of PushEventCore: an accepted event also refreshes the current
\* region of the output buffer.
PushEventCore_LiveOut(evt) ==
    /\ nCalls < MaxCalls
    /\ nCalls' = nCalls + 1
    /\ sincePush' = sincePush + 1
    /\ IF PushError(evt) # "" THEN
          /\ ret' = [op |-> "push_event", ok |-> FALSE]
          /\ UNCHANGED <<fv, last_swap_ts, log>>
       ELSE IF evt.tag = "Liquidity" THEN
          /\ fv' = ApplyLiquidity(fv, evt.delta.val, evt.prev.val)
          /\ ret' = [op |-> "push_event", ok |-> TRUE]
          /\ log' = Append(log, evt)
          /\ UNCHANGED last_swap_ts
       ELSE
          /\ LET r == ApplySwap(fv, last_swap_ts, evt.amount.val, evt.timestamp_ms.val)
             IN  /\ fv' = r.fv
                 /\ last_swap_ts' = r.last
          /\ ret' = [op |-> "push_event", ok |-> TRUE]
          /\ log' = Append(log, evt)
    /\ out' = [i \in OutIdx |-> IF i < NumFeatures THEN fv'.data[i] ELSE out[i]]
    /\ UNCHANGED <<lag1, lag2, slotStart, hist, idleEnd, faults>>

\* FeatureEngine::push_event: its effect on the engine.
PushEventCore(evt) ==
    /\ nCalls < MaxCalls
    /\ nCalls' = nCalls + 1
    /\ sincePush' = sincePush + 1
    /\ IF PushError(evt) # "" THEN
          /\ ret' = [op |-> "push_event", ok |-> FALSE]
          /\ UNCHANGED <<fv, last_swap_ts, log>>
       ELSE IF evt.tag = "Liquidity" THEN
          /\ fv' = ApplyLiquidity(fv, evt.delta.val, evt.prev.val)
          /\ ret' = [op |-> "push_event", ok |-> TRUE]
          /\ log' = Append(log, evt)
          /\ UNCHANGED last_swap_ts
       ELSE
          /\ LET r == ApplySwap(fv, last_swap_ts, evt.amount.val, evt.timestamp_ms.val)
             IN  /\ fv' = r.fv
                 /\ last_swap_ts' = r.last
          /\ ret' = [op |-> "push_event", ok |-> TRUE]
          /\ log' = Append(log, evt)
    /\ UNCHANGED <<lag1, lag2, out, slotStart, hist, idleEnd, faults>>

\* FeatureEngine::push_event
PushEvent(evt) ==
    /\ PushEventCore(evt)
    /\ UNCHANGED <<functorVars, queueVars, catalogVars>>

\* Mutant of Snapshot: the two lag regions are written in the other order.
Snapshot_LagsExchanged(data, l1, l2) ==
    [i \in OutIdx |-> IF i < NumFeatures THEN data[i]
                      ELSE IF i < 2 * NumFeatures THEN l2[i - NumFeatures]
                      ELSE l1[i - 2 * NumFeatures]]

\* The 768 values on_slot_end writes into `out`: [current, lag1, lag2].
Snapshot(data, l1, l2) ==
    [i \in OutIdx |-> IF i < NumFeatures THEN data[i]
                      ELSE IF i < 2 * NumFeatures THEN l1[i - NumFeatures]
                      ELSE l2[i - 2 * NumFeatures]]

\* Mutant of RotateLags: the two swaps are made in the other order.
RotateLags_Reordered(data, l1, l2) ==
    LET a == [lag1 |-> data, data |-> l1]              \* swap(lag1, fv.data)
        b == [lag2 |-> a.lag1, lag1 |-> l2]            \* swap(lag2, lag1)
    IN  [data |-> a.data, lag1 |-> b.lag1, lag2 |-> b.lag2]

\* The two std::mem::swap calls of on_slot_end, in order.
RotateLags(data, l1, l2) ==
    LET a == [lag2 |-> l1, lag1 |-> l2]                \* swap(lag2, lag1)
        b == [lag1 |-> data, data |-> a.lag1]          \* swap(lag1, fv.data)
    IN  [data |-> b.data, lag1 |-> b.lag1, lag2 |-> a.lag2]

\* Mutant of OnSlotEnd: the slot boundary also forgets the last swap timestamp.
OnSlotEnd_ClearsLastTs ==
    /\ nCalls < MaxCalls
    /\ nCalls' = nCalls + 1
    /\ out' = Snapshot(fv.data, lag1, lag2)
    /\ LET r == RotateLags(fv.data, lag1, lag2)
       IN  /\ lag1' = r.lag1
           /\ lag2' = r.lag2
           /\ fv' = ResetData([fv EXCEPT !.data = r.data])
    /\ ret' = [op |-> "on_slot_end", ok |-> TRUE]
    /\ hist' = Append(hist, out')
    /\ slotStart' = Len(log)
    /\ idleEnd' = (sincePush = 0)
    /\ sincePush' = 0
    /\ last_swap_ts' = None
    /\ UNCHANGED <<log, faults>>
    /\ UNCHANGED <<functorVars, queueVars, catalogVars>>

\* FeatureEngine::on_slot_end
OnSlotEnd ==
    /\ nCalls < MaxCalls
    /\ nCalls' = nCalls + 1
    /\ out' = Snapshot(fv.data, lag1, lag2)
    /\ LET r == RotateLags(fv.data, lag1, lag2)
       IN  /\ lag1' = r.lag1
           /\ lag2' = r.lag2
           /\ fv' = ResetData([fv EXCEPT !.data = r.data])
    /\ ret' = [op |-> "on_slot_end", ok |-> TRUE]
    /\ hist' = Append(hist, out')
    /\ slotStart' = Len(log)
    /\ idleEnd' = (sincePush = 0)
    /\ sincePush' = 0
    /\ UNCHANGED <<last_swap_ts, log, faults>>
    /\ UNCHANGED <<functorVars, queueVars, catalogVars>>

\* Mutant of GetStats: the pair is (variance, mean).
GetStats_VarFirst(idx) == <<fv.vars[idx], fv.means[idx]>>

\* FeatureEngine::get_stats, for idx < 256
GetStats(idx) == <<fv.means[idx], fv.vars[idx]>>

\* FeatureEngine::get_stats called with idx: indexing the 256-element arrays
\* panics for idx >= 256, otherwise the pair is returned; &self, no writes.
GetStatsCall(idx) ==
    /\ nCalls < MaxCalls
    /\ nCalls' = nCalls + 1
    /\ ret' = IF idx < NumFeatures
              THEN [op |-> "get_stats", ok |-> TRUE, val |-> GetStats(idx)]
              ELSE [op |-> "get_stats", ok |-> FALSE]
    /\ faults' = IF idx < NumFeatures THEN faults ELSE faults + 1
    /\ UNCHANGED <<engine, log, slotStart, hist, sincePush, idleEnd>>
    /\ UNCHANGED <<functorVars, queueVars, catalogVars>>

\* ---------------------------------------------------------------- functors
\* event.rs: Event
Events ==
    [tag : {"Liquidity"}, delta : Deltas, prev : Prevs]
    \cup [tag : {"Swap"}, amount : Amounts, timestamp_ms : Timestamps]
    \cup [tag : {"Flush"}, ack : {"sender"}]

\* LiqDeltaAbs::apply
LiqDeltaAbsApply(f, evt) ==
    IF evt.tag = "Liquidity" THEN
        LET abs == Abs(Fx(evt.delta))
        IN  FvUpdate(DataAdd(f, IDX_LIQ_DELTA_ABS, abs), IDX_LIQ_DELTA_ABS, abs)
    ELSE f

\* LiqDeltaRatio::apply
LiqDeltaRatioApply(f, evt) ==
    IF evt.tag = "Liquidity" THEN
        LET ratio == IF Abs(Fx(evt.prev)) > F64_EPSILON
                     THEN (Fx(evt.delta) * Scale) \div Fx(evt.prev) ELSE 0
        IN  FvUpdate(DataAdd(f, IDX_LIQ_DELTA_RATIO, ratio), IDX_LIQ_DELTA_RATIO, ratio)
    ELSE f

\* OfSignedVolume::apply
OfSignedVolumeApply(f, evt) ==
    IF evt.tag = "Swap" THEN
        FvUpdate(DataAdd(f, IDX_OF_SIGNED_VOL, Fx(evt.amount)),
                 IDX_OF_SIGNED_VOL, Fx(evt.amount))
    ELSE f

\* Mutant of OfTradeCountApply: the event's category is not looked at.
OfTradeCountApply_AnyEvent(f, evt) ==
    FvUpdate(DataAdd(f, IDX_OF_TRADE_COUNT, Fx(1)), IDX_OF_TRADE_COUNT, Fx(1))

\* OfTradeCount::apply
OfTradeCountApply(f, evt) ==
    IF evt.tag = "Swap" THEN
        FvUpdate(DataAdd(f, IDX_OF_TRADE_COUNT, Fx(1)), IDX_OF_TRADE_COUNT, Fx(1))
    ELSE f

\* OfIaTimeMs::apply: the feature vector and the functor's `last` after the event.
OfIaTimeMsApply(f, last, evt) ==
    IF evt.tag = "Swap" THEN
        LET dt == IF last = 0 THEN 0 ELSE Fx(evt.timestamp_ms - last)
        IN  [fv   |-> FvUpdate(DataSet(f, IDX_OF_IA_TIME_MS, dt), IDX_OF_IA_TIME_MS, dt),
             last |-> evt.timestamp_ms]
    ELSE [fv |-> f, last |-> last]

\* REGISTRY: the keys and the functor behind each.
FunctorKeys == {"liq_pool_delta_abs", "liq_pool_delta_ratio", "of_signed_volume",
                "of_trade_count", "of_ia_time_ms"}

RegistryApply(key, f, last, evt) ==
    IF key = "liq_pool_delta_abs" THEN [fv |-> LiqDeltaAbsApply(f, evt), last |-> last]
    ELSE IF key = "liq_pool_delta_ratio" THEN [fv |-> LiqDeltaRatioApply(f, evt), last |-> last]
    ELSE IF key = "of_signed_volume" THEN [fv |-> OfSignedVolumeApply(f, evt), last |-> last]
    ELSE IF key = "of_trade_count" THEN [fv |-> OfTradeCountApply(f, evt), last |-> last]
    ELSE OfIaTimeMsApply(f, last, evt)

\* REGISTRY[key].apply(&mut fvs[id], &evt)
FunctorApply(key, id, evt) ==
    /\ nApplied < MaxApplies
    /\ nApplied' = nApplied + 1
    /\ LET r == RegistryApply(key, fvs[id], ia_last, evt)
       IN  /\ fvs' = [fvs EXCEPT ![id] = r.fv]
           /\ ia_last' = r.last
    /\ flushed' = IF evt.tag = "Flush" THEN flushed + 1 ELSE flushed
    /\ iaLog' = IF key = "of_ia_time_ms" /\ evt.tag = "Swap"
                THEN Append(iaLog, [id |-> id, ts |-> evt.timestamp_ms])
                ELSE iaLog
    /\ UNCHANGED <<engineVars, queueVars, catalogVars>>

NextFunctors == \E key \in FunctorKeys, id \in FvIds, evt \in Events : FunctorApply(key, id, evt)

SpecFunctors == Init /\ [][NextFunctors]_vars

\* LIQ_KEYS, SWAP_KEYS: the functor keys of each category, in table order.
LIQ_KEYS == <<"liq_pool_delta_abs", "liq_pool_delta_ratio">>
SWAP_KEYS == <<"of_signed_volume", "of_trade_count", "of_ia_time_ms">>
KeysFor(evt) ==
    IF evt.tag = "Liquidity" THEN LIQ_KEYS
    ELSE IF evt.tag = "Swap" THEN SWAP_KEYS
    ELSE <<>>

\* The first n functors of `keys` applied to evt, in order.
RECURSIVE ApplyKeys(_, _, _, _, _)
ApplyKeys(keys, n, f, last, evt) ==
    IF n = 0 THEN [fv |-> f, last |-> last]
    ELSE LET r == ApplyKeys(keys, n - 1, f, last, evt)
         IN  RegistryApply(keys[n], r.fv, r.last, evt)

\* Every functor of evt's category applied, in table order.
Dispatch(f, last, evt) == ApplyKeys(KeysFor(evt), Len(KeysFor(evt)), f, last, evt)

\* ------------------------------------------------------------ event channel
\* The events sent on the channel.
QueueEvents ==
    {e \in Events : \/ e.tag = "Flush"
                    \/ e.tag = "Liquidity" /\ e.prev # 0
                    \/ e.tag = "Swap" /\ e.amount > 0 /\ e.timestamp_ms > 0}

\* A producer sends evt on the channel.
Enqueue(evt) ==
    /\ nEnq < MaxEnq
    /\ nEnq' = nEnq + 1
    /\ queue' = Append(queue, [seq |-> nEnq + 1, evt |-> evt])
    /\ UNCHANGED <<applied, acked>>
    /\ UNCHANGED <<engineVars, functorVars, catalogVars>>

\* The consumer takes the message at position pos: a Flush is acknowledged at
\* once, any other event is applied to feature state 1.
ConsumeAt(pos) ==
    /\ queue # <<>>
    /\ LET m == queue[pos]
           r == Dispatch(fvs[1], ia_last, m.evt)
       IN  /\ queue' = [i \in 1 .. Len(queue) - 1 |->
                           IF i < pos THEN queue[i] ELSE queue[i + 1]]
           /\ applied' = applied \cup {m.seq}
           /\ acked' = IF m.evt.tag = "Flush"
                       THEN acked \cup {[seq |-> m.seq, applied |-> applied]}
                       ELSE acked
           /\ fvs' = [fvs EXCEPT ![1] = r.fv]
           /\ ia_last' = r.last
           /\ iaLog' = IF m.evt.tag = "Swap"
                       THEN Append(iaLog, [id |-> 1, ts |-> m.evt.timestamp_ms])
                       ELSE iaLog
    /\ UNCHANGED <<nEnq, flushed, nApplied>>
    /\ UNCHANGED <<engineVars, catalogVars>>

\* Mutant of Consume: the consumer takes the newest message first.
Consume_NewestFirst == ConsumeAt(Len(queue))

\* The consumer receives from the channel: the oldest message first.
Consume == ConsumeAt(1)

NextQueue ==
    \/ \E evt \in QueueEvents : Enqueue(evt)
    \/ Consume

SpecQueue == Init /\ [][NextQueue]_vars

\* ------------------------------------------------------------ catalog check
\* The catalog file is edited: an entry's index is rewritten, an entry is
\* added at the end, or the last entry is removed.
SetIndex(pos, val) ==
    /\ build = "none" /\ nEdits < MaxEdits
    /\ pos <= Len(catalog)
    /\ catalog' = [catalog EXCEPT ![pos] = val]
    /\ nEdits' = nEdits + 1
    /\ UNCHANGED <<build, engineVars, functorVars, queueVars>>

AddEntry(val) ==
    /\ build = "none" /\ nEdits < MaxEdits
    /\ catalog' = Append(catalog, val)
    /\ nEdits' = nEdits + 1
    /\ UNCHANGED <<build, engineVars, functorVars, queueVars>>

DropEntry ==
    /\ build = "none" /\ nEdits < MaxEdits
    /\ catalog # <<>>
    /\ catalog' = SubSeq(catalog, 1, Len(catalog) - 1)
    /\ nEdits' = nEdits + 1
    /\ UNCHANGED <<build, engineVars, functorVars, queueVars>>

\* max(idx) over entries lo..hi (lo <= hi), by halving the range.
RECURSIVE PyMax(_, _, _)
PyMax(cat, lo, hi) ==
    IF lo = hi THEN cat[lo]
    ELSE LET mid == (lo + hi) \div 2
             a   == PyMax(cat, lo, mid)
             b   == PyMax(cat, mid + 1, hi)
         IN  IF a > b THEN a ELSE b

\* What the Python snippet prints: len(idx), len(set(idx)), max(idx); nothing
\* when max() raises on an empty catalog.
PyOutput(cat) ==
    IF cat = <<>> THEN <<>>
    ELSE <<Len(cat), Cardinality({cat[i] : i \in 1 .. Len(cat)}), PyMax(cat, 1, Len(cat))>>

\* parts.get(k).and_then(|s| s.parse::<usize>().ok()).unwrap_or(0)
ParseUsize(parts, k) ==
    IF k <= Len(parts) /\ parts[k] >= 0 THEN parts[k] ELSE 0

\* build.rs main: TRUE when it does not panic.
BuildPasses(cat) ==
    LET parts == PyOutput(cat)
        len   == ParseUsize(parts, 1)
        uniq  == ParseUsize(parts, 2)
        max   == ParseUsize(parts, 3)
    IN  ~(len # NumFeatures \/ uniq # NumFeatures \/ max # NumFeatures - 1)

\* The build script runs on the catalog.
RunBuild ==
    /\ build = "none"
    /\ build' = IF BuildPasses(catalog) THEN "ok" ELSE "panic"
    /\ UNCHANGED <<catalog, nEdits, engineVars, functorVars, queueVars>>

NextCatalog ==
    \/ \E pos \in EditPositions, val \in CatalogValues : SetIndex(pos, val)
    \/ \E val \in CatalogValues : AddEntry(val)
    \/ DropEntry
    \/ RunBuild

SpecCatalog == Init /\ [][NextCatalog]_vars

\* ------------------------------------------------------- liquidity events
\* Liquidity payloads: positive, negative and zero prev, quotients that are
\* and are not representable.
LiqDeltas == {-3, 1}
LiqPrevs == {-2, 0, 3}
LiqPyEvents ==
    [tag : {"Liquidity"}, delta : {Some(x) : x \in LiqDeltas},
     prev : {Some(x) : x \in LiqPrevs}, amount : {None}, timestamp_ms : {None}]

NextLiquidity ==
    \/ \E evt \in LiqPyEvents : PushEvent(evt)
    \/ OnSlotEnd

SpecLiquidity == Init /\ [][NextLiquidity]_vars

\* ------------------------------------------------------------ the three calls
\* A valid Liquidity, a valid Swap and an event of unknown category.
ApiEvents ==
    {[tag |-> "Liquidity", delta |-> Some(-3), prev |-> Some(2),
      amount |-> None, timestamp_ms |-> None],
     [tag |-> "Swap", delta |-> None, prev |-> None,
      amount |-> Some(10), timestamp_ms |-> Some(1)],
     [tag |-> "Other", delta |-> None, prev |-> None,
      amount |-> None, timestamp_ms |-> None]}
\* Slot indices passed to get_stats: the first, the last, and the first out of range.
StatIdx == {IDX_LIQ_DELTA_ABS, NumFeatures - 1, NumFeatures}

NextApi ==
    \/ \E evt \in ApiEvents : PushEvent(evt)
    \/ OnSlotEnd
    \/ \E idx \in StatIdx : GetStatsCall(idx)

SpecApi == Init /\ [][NextApi]_vars

\* ------------------------------------------------- functor set next to engine
\* The Event (event.rs) a complete Liquidity or Swap PyEvent carries.
EventOf(evt) ==
    IF evt.tag = "Liquidity"
    THEN [tag |-> "Liquidity", delta |-> evt.delta.val, prev |-> evt.prev.val]
    ELSE [tag |-> "Swap", amount |-> evt.amount.val,
          timestamp_ms |-> evt.timestamp_ms.val]

\* The Liquidity and Swap events push_event accepts.
ValidPyEvents == {e \in PyEvents : PushError(e) = ""}

\* One event goes to the engine through push_event and to feature state 1
\* through the functors of its category.
PushBoth(evt) ==
    /\ PushEventCore(evt)
    /\ LET r == Dispatch(fvs[1], ia_last, EventOf(evt))
       IN  /\ fvs' = [fvs EXCEPT ![1] = r.fv]
           /\ ia_last' = r.last
    /\ iaLog' = IF evt.tag = "Swap"
                THEN Append(iaLog, [id |-> 1, ts |-> evt.timestamp_ms.val])
                ELSE iaLog
    /\ UNCHANGED <<flushed, nApplied, queueVars, catalogVars>>

NextBoth == \E evt \in ValidPyEvents : PushBoth(evt)

SpecBoth == Init /\ [][NextBoth]_vars

Next ==
    \/ \E evt \in PyEvents : PushEvent(evt)
    \/ OnSlotEnd

Spec == Init /\ [][Next]_vars

\* ------------------------------------------------------------------ claims
\* The three regions of a 768-value snapshot, each as 256 values.
CurRegion(snap)  == [i \in Idx |-> snap[i]]
Lag1Region(snap) == [i \in Idx |-> snap[NumFeatures + i]]
Lag2Region(snap) == [i \in Idx |-> snap[2 * NumFeatures + i]]

UsedIdx == {IDX_LIQ_DELTA_ABS, IDX_LIQ_DELTA_RATIO, IDX_OF_SIGNED_VOL,
            IDX_OF_TRADE_COUNT, IDX_OF_IA_TIME_MS}

\* g agrees with f at every index outside the five used slots (shifted by
\* `base` for a region of a 768-value buffer).
AgreeOutsideUsed(g, f, base) ==
    g = [f EXCEPT ![base + IDX_LIQ_DELTA_ABS]   = g[base + IDX_LIQ_DELTA_ABS],
                  ![base + IDX_LIQ_DELTA_RATIO] = g[base + IDX_LIQ_DELTA_RATIO],
                  ![base + IDX_OF_SIGNED_VOL]   = g[base + IDX_OF_SIGNED_VOL],
                  ![base + IDX_OF_TRADE_COUNT]  = g[base + IDX_OF_TRADE_COUNT],
                  ![base + IDX_OF_IA_TIME_MS]   = g[base + IDX_OF_IA_TIME_MS]]

\* Every entry of the 256-value array outside the five used slots is zero.
UnusedZero(g) == AgreeOutsideUsed(g, Zeros, 0)

\* The same for the three regions of a 768-value buffer.
ZerosOut == [i \in OutIdx |-> 0]
UnusedZeroOut(snap) ==
    LET a == [snap EXCEPT ![IDX_LIQ_DELTA_ABS] = 0, ![IDX_LIQ_DELTA_RATIO] = 0,
                          ![IDX_OF_SIGNED_VOL] = 0, ![IDX_OF_TRADE_COUNT] = 0,
                          ![IDX_OF_IA_TIME_MS] = 0]
        b == [a EXCEPT ![NumFeatures + IDX_LIQ_DELTA_ABS] = 0,
                       ![NumFeatures + IDX_LIQ_DELTA_RATIO] = 0,
                       ![NumFeatures + IDX_OF_SIGNED_VOL] = 0,
                       ![NumFeatures + IDX_OF_TRADE_COUNT] = 0,
                       ![NumFeatures + IDX_OF_IA_TIME_MS] = 0]
        c == [b EXCEPT ![2 * NumFeatures + IDX_LIQ_DELTA_ABS] = 0,
                       ![2 * NumFeatures + IDX_LIQ_DELTA_RATIO] = 0,
                       ![2 * NumFeatures + IDX_OF_SIGNED_VOL] = 0,
                       ![2 * NumFeatures + IDX_OF_TRADE_COUNT] = 0,
                       ![2 * NumFeatures + IDX_OF_IA_TIME_MS] = 0]
    IN  c = ZerosOut

OnlySwaps(evts) == \A j \in 1 .. Len(evts) : evts[j].tag = "Swap"
Ts(evts, j) == evts[j].timestamp_ms.val
StrictlyIncreasing(evts) ==
    \A j \in 1 .. Len(evts) - 1 : Ts(evts, j) < Ts(evts, j + 1)

\* C1: the k-th on_slot_end returns 768 values [current, lag-1, lag-2] whose
\* lag-1 region is the current region the (k-1)-th call returned and whose
\* lag-2 region is the current region the (k-2)-th call returned, all zeros
\* when that earlier call does not exist.
C1_LagRotation ==
    \A k \in 1 .. Len(hist) :
        /\ DOMAIN hist[k] = OutIdx
        /\ Lag1Region(hist[k]) = IF k > 1 THEN CurRegion(hist[k - 1]) ELSE Zeros
        /\ Lag2Region(hist[k]) = IF k > 2 THEN CurRegion(hist[k - 2]) ELSE Zeros

\* C1 witness: three snapshots, a non-zero current region moving to the
\* lag-1 region of the second and to the lag-2 region of the third.
C1_Witness ==
    /\ Len(hist) >= 3
    /\ CurRegion(hist[1]) # Zeros
    /\ Lag1Region(hist[2]) = CurRegion(hist[1])
    /\ Lag2Region(hist[3]) = CurRegion(hist[1])
    /\ Lag1Region(hist[3]) # Lag2Region(hist[3])

\* An event that lacks a field its declared category requires, or whose
\* category is unknown (stated from the claim, not from push_event).
Invalid(evt) ==
    \/ evt.tag = "Liquidity" /\ (evt.delta = None \/ evt.prev = None)
    \/ evt.tag = "Swap" /\ (evt.amount = None \/ evt.timestamp_ms = None)
    \/ evt.tag \notin {"Liquidity", "Swap"}

\* C2: push_event of an invalid event returns an error and leaves the whole
\* engine state (accumulators, means, variances, both lag buffers, the last
\* swap timestamp, the output buffer) unchanged.
C2_InvalidEventNoMutation ==
    [][\A evt \in PyEvents :
          (Invalid(evt) /\ PushEvent(evt)) => (~ret'.ok /\ UNCHANGED engine)]_vars

\* C2 witness: an error was returned by push_event on an engine whose
\* accumulators, statistics, lag buffer and last timestamp are all set.
C2_Witness ==
    /\ ret = [op |-> "push_event", ok |-> FALSE]
    /\ fv.data # Zeros
    /\ fv.means # Zeros
    /\ lag1 # Zeros
    /\ last_swap_ts # None

\* C3: on_slot_end leaves get_stats(idx) unchanged for every one of the 256
\* slots, and resets the accumulators.
C3_SlotEndKeepsStats ==
    [][(nCalls' # nCalls /\ ret'.op = "on_slot_end") =>
          /\ \A idx \in Idx : GetStats(idx)' = GetStats(idx)
          /\ fv'.data = Zeros]_vars

\* C3 witness: on_slot_end has just returned on an engine with non-zero means
\* and variances.
C3_Witness ==
    /\ ret.op = "on_slot_end"
    /\ \E idx \in Idx : GetStats(idx)[1] # 0 /\ GetStats(idx)[2] # 0
    /\ lag1 # Zeros

\* C4: when only Swap events with strictly increasing timestamps have been
\* pushed to the engine, then right after the first one the inter-arrival
\* accumulator (66) is 0 and right after the k-th, k > 1, it is t_k - t_(k-1).
C4_InterArrival ==
    (ret = [op |-> "push_event", ok |-> TRUE] /\ OnlySwaps(log) /\ StrictlyIncreasing(log))
        => fv.data[IDX_OF_IA_TIME_MS] =
              IF Len(log) = 1 THEN 0
              ELSE Fx(Ts(log, Len(log)) - Ts(log, Len(log) - 1))

\* C4 witness: three swaps with increasing timestamps, the third just pushed.
C4_Witness ==
    /\ ret = [op |-> "push_event", ok |-> TRUE]
    /\ Len(log) = 3 /\ OnlySwaps(log) /\ StrictlyIncreasing(log)
    /\ fv.data[IDX_OF_IA_TIME_MS] = Fx(2)

\* The raw contribution of the j-th accepted event to slot i, as the functor
\* table of the specification describes it.
PrevSwaps(j) == {m \in 1 .. j - 1 : log[m].tag = "Swap"}
MaxOf(S) == CHOOSE m \in S : \A n \in S : n <= m
Contribution(i, j) ==
    LET e == log[j] IN
    IF e.tag = "Liquidity" THEN
        IF i = IDX_LIQ_DELTA_ABS THEN Abs(Fx(e.delta.val))
        ELSE IF i = IDX_LIQ_DELTA_RATIO THEN
            IF e.prev.val # 0 THEN (Fx(e.delta.val) * Scale) \div Fx(e.prev.val) ELSE 0
        ELSE 0
    ELSE
        IF i = IDX_OF_SIGNED_VOL THEN Fx(e.amount.val)
        ELSE IF i = IDX_OF_TRADE_COUNT THEN Fx(1)
        ELSE IF i = IDX_OF_IA_TIME_MS THEN
            IF PrevSwaps(j) = {} THEN 0
            ELSE Fx(e.timestamp_ms.val - Ts(log, MaxOf(PrevSwaps(j))))
        ELSE 0

RECURSIVE SumContributions(_, _, _)
SumContributions(i, from, to) ==
    IF from > to THEN 0
    ELSE SumContributions(i, from, to - 1) + Contribution(i, to)

SlotSwaps == {m \in slotStart + 1 .. Len(log) : log[m].tag = "Swap"}

\* C5 as stated: every accumulator, slot 66 included, is the sum of the raw
\* contributions of the events pushed since the last slot boundary (for a
\* slot no functor is bound to, the empty sum 0), and is zero right after
\* on_slot_end.
C5_Original ==
    /\ \A i \in UsedIdx : fv.data[i] = SumContributions(i, slotStart + 1, Len(log))
    /\ UnusedZero(fv.data)
    /\ ret.op = "on_slot_end" => fv.data = Zeros

\* C5 amended: every accumulator other than slot 66 is the sum of the raw
\* contributions of the events pushed since the last slot boundary; slot 66
\* is overwritten, not summed: it holds the inter-arrival contribution of the
\* last Swap pushed since the boundary (0 when there is none); every
\* accumulator is zero right after on_slot_end.
C5_Accumulators ==
    /\ \A i \in UsedIdx \ {IDX_OF_IA_TIME_MS} :
          fv.data[i] = SumContributions(i, slotStart + 1, Len(log))
    /\ UnusedZero(fv.data)
    /\ fv.data[IDX_OF_IA_TIME_MS] =
          IF SlotSwaps = {} THEN 0 ELSE Contribution(IDX_OF_IA_TIME_MS, MaxOf(SlotSwaps))
    /\ ret.op = "on_slot_end" => fv.data = Zeros

\* C5 witness: two swaps and a liquidity event in a slot that follows a slot
\* with a swap, so that slot 66 holds one inter-arrival time while the sum of
\* the slot's inter-arrival times is another.
C5_Witness ==
    /\ slotStart >= 1
    /\ Cardinality(SlotSwaps) >= 2
    /\ fv.data[IDX_OF_IA_TIME_MS] # 0
    /\ fv.data[IDX_OF_IA_TIME_MS] #
          SumContributions(IDX_OF_IA_TIME_MS, slotStart + 1, Len(log))
    /\ fv.data[IDX_OF_SIGNED_VOL] # 0

\* C6: an on_slot_end called with no push_event since the previous
\* on_slot_end (or since creation) returns an all-zero current region, and a
\* lag-1 region equal to the current region of the previous call's snapshot.
C6_IdleSlotEnd ==
    (ret.op = "on_slot_end" /\ idleEnd) =>
        /\ CurRegion(hist[Len(hist)]) = Zeros
        /\ Len(hist) > 1 =>
              Lag1Region(hist[Len(hist)]) = CurRegion(hist[Len(hist) - 1])

\* C6 witness: an idle on_slot_end that follows a slot with events.
C6_Witness ==
    /\ ret.op = "on_slot_end" /\ idleEnd
    /\ Len(hist) > 1
    /\ CurRegion(hist[Len(hist) - 1]) # Zeros
    /\ Lag1Region(hist[Len(hist)]) # Zeros

RECURSIVE SumAmounts(_)
SumAmounts(n) == IF n = 0 THEN 0 ELSE SumAmounts(n - 1) + log[n].amount.val

\* C7: on a fresh engine, after only Swap events and then one on_slot_end,
\* the snapshot's current region has slot 64 = the signed sum of the amounts,
\* slot 65 = the number of swaps, slot 66 = the difference of the last two
\* timestamps (0 with fewer than two swaps), every other slot 0, and its
\* lag-1 and lag-2 regions are all zero.
C7_FirstSnapshot ==
    (Len(hist) = 1 /\ OnlySwaps(log)) =>
        LET snap == hist[1]
            n    == slotStart
        IN  /\ snap[IDX_OF_SIGNED_VOL] = Fx(SumAmounts(n))
            /\ snap[IDX_OF_TRADE_COUNT] = Fx(n)
            /\ snap[IDX_OF_IA_TIME_MS] =
                  IF n < 2 THEN 0 ELSE Fx(Ts(log, n) - Ts(log, n - 1))
            /\ snap[IDX_LIQ_DELTA_ABS] = 0 /\ snap[IDX_LIQ_DELTA_RATIO] = 0
            /\ UnusedZero(CurRegion(snap))
            /\ Lag1Region(snap) = Zeros
            /\ Lag2Region(snap) = Zeros

\* C7 witness: Swap(10, t), Swap(-3, t + 2), on_slot_end: 7, 2 and 2.
C7_Witness ==
    /\ Len(hist) = 1 /\ OnlySwaps(log) /\ slotStart = 2 /\ ret.op = "on_slot_end"
    /\ log[1].amount.val = 10 /\ log[2].amount.val = -3
    /\ hist[1][IDX_OF_SIGNED_VOL] = Fx(7)
    /\ hist[1][IDX_OF_TRADE_COUNT] = Fx(2)
    /\ hist[1][IDX_OF_IA_TIME_MS] = Fx(2)

\* Slots outside S keep their accumulator, mean and variance in this step.
SameOutside(S) ==
    /\ \A i \in UsedIdx \ S : /\ fv'.data[i] = fv.data[i]
                              /\ fv'.means[i] = fv.means[i]
                              /\ fv'.vars[i] = fv.vars[i]
    /\ AgreeOutsideUsed(fv'.data, fv.data, 0)
    /\ AgreeOutsideUsed(fv'.means, fv.means, 0)
    /\ AgreeOutsideUsed(fv'.vars, fv.vars, 0)

\* C8: an accepted Liquidity event changes only slots 0 and 1 and leaves the
\* last swap timestamp alone; an accepted Swap event changes only slots 64,
\* 65 and 66 (and the last swap timestamp).
C8_DisjointSlots ==
    [][Len(log') = Len(log) + 1 =>
          IF log'[Len(log')].tag = "Liquidity"
          THEN /\ SameOutside({IDX_LIQ_DELTA_ABS, IDX_LIQ_DELTA_RATIO})
               /\ last_swap_ts' = last_swap_ts
          ELSE SameOutside({IDX_OF_SIGNED_VOL, IDX_OF_TRADE_COUNT, IDX_OF_IA_TIME_MS})]_vars

\* C8 witness: events of both categories were accepted and each left its mark.
C8_Witness ==
    /\ \E j \in 1 .. Len(log) : log[j].tag = "Liquidity"
    /\ \E j \in 1 .. Len(log) : log[j].tag = "Swap"
    /\ fv.data[IDX_LIQ_DELTA_ABS] # 0 /\ fv.data[IDX_LIQ_DELTA_RATIO] # 0
    /\ fv.data[IDX_OF_SIGNED_VOL] # 0 /\ fv.data[IDX_OF_IA_TIME_MS] # 0
    /\ fv.means[IDX_OF_TRADE_COUNT] # 0 /\ fv.vars[IDX_LIQ_DELTA_ABS] # 0

\* C9: every slot other than 0, 1, 64, 65 and 66 is zero everywhere: its
\* accumulator, mean and variance, its entries in both lag buffers and in the
\* three regions of the output buffer and of every snapshot returned.
C9_UnusedSlotsZero ==
    /\ UnusedZero(fv.data) /\ UnusedZero(fv.means) /\ UnusedZero(fv.vars)
    /\ UnusedZero(lag1) /\ UnusedZero(lag2)
    /\ UnusedZeroOut(out)
    /\ \A k \in 1 .. Len(hist) : UnusedZeroOut(hist[k])

\* C9 witness: the engine has taken events of both categories through two
\* slot boundaries, so the five used slots are live in the lag buffers.
C9_Witness ==
    /\ Len(hist) >= 2
    /\ lag2 # Zeros /\ lag1 # Zeros
    /\ fv.means[IDX_LIQ_DELTA_ABS] # 0 /\ fv.means[IDX_OF_SIGNED_VOL] # 0

\* C10: applying any built-in functor to a Flush event leaves every feature
\* state (accumulators, means, variances) and the inter-arrival functor's
\* stored last timestamp unchanged.
C10_FlushNoEffect ==
    [][flushed' # flushed => (fvs' = fvs /\ ia_last' = ia_last)]_vars

\* C10 witness: a Flush was applied to a feature state that already held
\* liquidity and swap features, with the last timestamp set.
C10_Witness ==
    /\ flushed > 0
    /\ ia_last # 0
    /\ \E id \in FvIds : fvs[id].data # Zeros /\ fvs[id].means # Zeros

\* C11: Flush is a barrier: whenever the acknowledgment of a Flush is
\* signalled, every event enqueued strictly before that Flush has already
\* been applied.
C11_FlushBarrier ==
    \A a \in acked : \A n \in 1 .. a.seq - 1 : n \in a.applied

\* C11 witness: a Flush enqueued third was acknowledged after two events
\* that changed the feature state.
C11_Witness ==
    /\ \E a \in acked : a.seq = 3 /\ a.applied = {1, 2}
    /\ fvs[1].data[IDX_LIQ_DELTA_ABS] # 0
    /\ fvs[1].data[IDX_OF_SIGNED_VOL] # 0

\* A catalog with exactly 256 entries whose indices are unique and cover
\* 0..255.
CatalogCovers(cat) ==
    /\ Len(cat) = NumFeatures
    /\ Cardinality({cat[i] : i \in 1 .. Len(cat)}) = Len(cat)
    /\ {cat[i] : i \in 1 .. Len(cat)} = Idx

\* C12: the catalog check lets initialization proceed exactly for a catalog
\* with 256 entries whose indices are unique and cover 0..255; every other
\* catalog makes it fail.
C12_CatalogCheck ==
    build # "none" => (build = "ok" <=> CatalogCovers(catalog))

\* What accumulator 1 gained in the step.
RatioGain == fv'.data[IDX_LIQ_DELTA_RATIO] - fv.data[IDX_LIQ_DELTA_RATIO]

\* C13 as stated: for every Liquidity(delta, prev) event the ratio slot is
\* increased by exactly delta/prev when |prev| > epsilon and by 0 otherwise,
\* and the event is accepted.
C13_Original ==
    [][\A evt \in LiqPyEvents : PushEvent(evt) =>
          /\ ret'.ok
          /\ IF Abs(Fx(evt.prev.val)) > F64_EPSILON
             THEN RatioGain * evt.prev.val = Fx(evt.delta.val)
             ELSE RatioGain = 0]_vars

\* C13 amended: for every Liquidity(delta, prev) event the ratio slot is
\* increased by delta/prev rounded to the accumulator's precision (less than
\* one unit away from the quotient) when |prev| > epsilon and by 0 otherwise
\* (no division); the event is accepted in both cases, and the functor
\* LiqDeltaRatio leaves the same value in the slot.
C13_RatioRounded ==
    [][\A evt \in LiqPyEvents : PushEvent(evt) =>
          /\ ret'.ok
          /\ IF Abs(Fx(evt.prev.val)) > F64_EPSILON
             THEN Abs(RatioGain * evt.prev.val - Fx(evt.delta.val)) < Abs(evt.prev.val)
             ELSE RatioGain = 0
          /\ LiqDeltaRatioApply(fv, EventOf(evt)).data[IDX_LIQ_DELTA_RATIO]
                = fv'.data[IDX_LIQ_DELTA_RATIO]]_vars

\* C13 witness: in one slot an event with prev = 0 was accepted and left the
\* ratio slot alone, then two events with a negative and a positive prev
\* were accepted, the last with a quotient (1/3) that is not representable.
C13_Witness ==
    /\ ret = [op |-> "push_event", ok |-> TRUE]
    /\ Len(log) >= slotStart + 3
    /\ log[Len(log) - 2].prev.val = 0
    /\ log[Len(log) - 1].prev.val < 0
    /\ log[Len(log)].prev.val = 3 /\ log[Len(log)].delta.val = 1
    /\ 3 * (fv.data[IDX_LIQ_DELTA_RATIO] - Fx(log[Len(log) - 1].delta.val) \div (-2)) # Fx(1)
    /\ fv.data[IDX_LIQ_DELTA_RATIO] # Fx(log[Len(log) - 1].delta.val) \div (-2)

\* C14: get_stats(idx) returns slot idx's current (mean, variance) for idx
\* in 0..255 and faults for idx >= 256; in both cases the engine state is
\* left unchanged.
C14_GetStats ==
    [][\A idx \in StatIdx : GetStatsCall(idx) =>
          /\ UNCHANGED engine
          /\ IF idx \in Idx
             THEN ret'.ok /\ ret'.val = <<fv.means[idx], fv.vars[idx]>>
             ELSE ~ret'.ok]_vars

\* C14 witness: get_stats returned a pair whose mean and variance differ,
\* after an out-of-range call had faulted.
C14_Witness ==
    /\ ret.op = "get_stats" /\ ret.ok
    /\ ret.val[1] # ret.val[2]
    /\ faults >= 1

\* C16: no push_event call (valid or invalid) and no get_stats call modifies
\* the output buffer or either lag buffer; only on_slot_end writes them, so
\* the buffer holds the last returned snapshot until the next on_slot_end.
C16_SnapshotStable ==
    [][/\ (\/ \E evt \in ApiEvents : PushEvent(evt)
           \/ \E idx \in StatIdx : GetStatsCall(idx)) => UNCHANGED <<out, lag1, lag2>>
       /\ <<out, lag1, lag2>>' # <<out, lag1, lag2>> => OnSlotEnd
       /\ hist' # <<>> => out' = hist'[Len(hist')]]_vars

\* C16 witness: a non-zero snapshot was returned, then an event was accepted
\* and changed the accumulators, then get_stats was called; the output
\* buffer still holds the snapshot.
C16_Witness ==
    /\ hist # <<>> /\ out = hist[Len(hist)]
    /\ CurRegion(out) # Zeros
    /\ Len(log) > slotStart /\ fv.data # Zeros
    /\ ret.op = "get_stats"

\* C15: for each Swap the of_ia_time_ms functor is applied to, slot 66 of
\* the feature state receives the inter-arrival time since the previous Swap
\* the functor was applied to, and 0 only for the first Swap it ever sees,
\* whatever the timestamps are (a previous timestamp of 0 included).
C15_FunctorInterArrival ==
    LET n == Len(iaLog) IN
    n > 0 =>
        fvs[iaLog[n].id].data[IDX_OF_IA_TIME_MS] =
            IF n = 1 THEN 0 ELSE Fx(iaLog[n].ts - iaLog[n - 1].ts)

\* The `last` a functor instance private to feature state id would hold
\* after the first n applications recorded in iaLog.
RECURSIVE PrivateLast(_, _)
PrivateLast(id, n) ==
    IF n = 0 THEN 0
    ELSE IF iaLog[n].id = id THEN iaLog[n].ts
    ELSE PrivateLast(id, n - 1)

\* C19: the inter-arrival value computed for a Swap applied to one feature
\* state depends only on the Swaps previously applied to that same feature
\* state: it is the value a functor instance private to that feature state
\* gives, however applications to other feature states are interleaved.
C19_FeatureStatesIsolated ==
    LET n == Len(iaLog) IN
    n > 0 =>
        LET id  == iaLog[n].id
            evt == [tag |-> "Swap", amount |-> 0, timestamp_ms |-> iaLog[n].ts]
        IN  fvs[id].data[IDX_OF_IA_TIME_MS] =
                OfIaTimeMsApply(FeatureVecNew, PrivateLast(id, n - 1), evt)
                    .fv.data[IDX_OF_IA_TIME_MS]

\* C17: after every sequence of Liquidity and Swap events, the feature
\* state updated by the functors of each event's category, in table order,
\* has the same accumulators, means and variances as the engine's feature
\* state updated by push_event.
C17_FunctorsMatchEngine ==
    /\ fvs[1].data = fv.data
    /\ fvs[1].means = fv.means
    /\ fvs[1].vars = fv.vars

\* The accepted Swaps, over the engine's whole life.
AllSwaps == PrevSwaps(Len(log) + 1)

\* C18: the stored last swap timestamp survives slot boundaries.  It is
\* unset until the first Swap is accepted and from then on is the timestamp
\* of the most recently accepted Swap, across every on_slot_end; and once a
\* Swap was accepted in the current slot, the inter-arrival slot holds the
\* last such Swap's timestamp minus the timestamp of the Swap accepted before
\* it, in this slot or an earlier one, and 0 only when it is the first Swap
\* of the engine's life.
C18_LastTimestampSurvives ==
    /\ last_swap_ts = IF AllSwaps = {} THEN None
                      ELSE Some(Ts(log, MaxOf(AllSwaps)))
    /\ SlotSwaps # {} =>
          LET j == MaxOf(SlotSwaps) IN
          fv.data[IDX_OF_IA_TIME_MS] =
              IF PrevSwaps(j) = {} THEN 0
              ELSE Fx(Ts(log, j) - Ts(log, MaxOf(PrevSwaps(j))))

\* C18 witness: a Swap was accepted, on_slot_end ran, and the first Swap of
\* the new slot left the difference of the two timestamps, not 0, in the
\* inter-arrival slot.
C18_Witness ==
    /\ slotStart >= 1 /\ hist # <<>>
    /\ Len(log) = slotStart + 1
    /\ log[Len(log)].tag = "Swap"
    /\ PrevSwaps(Len(log)) # {}
    /\ fv.data[IDX_OF_IA_TIME_MS] # 0
    /\ fv.data[IDX_OF_IA_TIME_MS] =
          Fx(Ts(log, Len(log)) - Ts(log, MaxOf(PrevSwaps(Len(log)))))
    /\ last_swap_ts = Some(Ts(log, Len(log)))

====
